---- MODULE Spec2Model ----
(***************************************************************************)
(* Resty Chess: the board service (app/service.py), the request models     *)
(* (app/models.py) and the request handlers (app/main.py).                 *)
(*                                                                         *)
(* Spec      one request at a time against the cached service: every       *)
(*           action is one whole request handler.                          *)
(* SpecLoop  several requests in flight on the event loop: a handler is a  *)
(*           coroutine whose statements are separate steps.                *)
(***************************************************************************)
EXTENDS Integers, Sequences, FiniteSets, TLC

VARIABLES
    cache,      \* lru_cache(maxsize=1) of get_chess_service: <<>> or <<service>>
    req,        \* the request handled last (Spec)
    resp,       \* the response returned last (Spec)
    nops,       \* the number of requests handled so far (Spec)
    scenario,   \* how many requests of Scenario the requests so far have
                \* followed, -1 once they left it (Spec)
    last_get,   \* the response of the last get_board with no successful
                \* move or remove since, NoResponse when there is none (Spec)
    same_gets,  \* the number of get_board requests answered since the last
                \* successful move or remove (Spec)
    touched,    \* whether a move or remove request was handled yet (Spec)
    tasks,      \* the requests received, in order: the state of the coroutine
                \* that handles each (SpecLoop)
    active      \* the handlers that have begun and not yet returned (SpecLoop)

vars == <<cache, req, resp, nops, scenario, last_get, same_gets, touched, tasks,
          active>>

----------------------------------------------------------------------------
(* Bounds *)

\* requests handled in one behaviour of Spec
MaxOps == 3

\* requests in flight in one behaviour of SpecLoop
MaxTasks == 2

----------------------------------------------------------------------------
(* python-chess values used by the service *)

PAWN == 1
KNIGHT == 2
BISHOP == 3
ROOK == 4
QUEEN == 5
KING == 6

WHITE == TRUE
BLACK == FALSE

FILE_NAMES == <<"a", "b", "c", "d", "e", "f", "g", "h">>
RANK_NAMES == <<"1", "2", "3", "4", "5", "6", "7", "8">>

\* chess.SQUARES = range(64): a1 = 0, b1 = 1, ..., h8 = 63
SQUARES == 0..63

square_file(sq) == sq % 8
square_rank(sq) == sq \div 8

\* chess.square_name(square)
square_name(sq) == FILE_NAMES[square_file(sq) + 1] \o RANK_NAMES[square_rank(sq) + 1]

\* chess.SQUARE_NAMES, by square
SQUARE_NAMES == [sq \in SQUARES |-> square_name(sq)]

\* the 64 names of SQUARE_NAMES
SquareNameSet == {SQUARE_NAMES[sq] : sq \in SQUARES}

\* SQUARE_NAMES.index(name), by name
SquareIndex == [name \in SquareNameSet |-> CHOOSE sq \in SQUARES : SQUARE_NAMES[sq] = name]

\* chess.parse_square(name) = SQUARE_NAMES.index(name)
parse_square(name) == SquareIndex[name]

\* A square without a piece: piece_at returns None
None == [piece_type |-> 0, color |-> FALSE]

Piece(pt, c) == [piece_type |-> pt, color |-> c]

\* the back rank of the standard setup, file a to file h
BackRank == <<ROOK, KNIGHT, BISHOP, QUEEN, KING, BISHOP, KNIGHT, ROOK>>

\* chess.Board(): the standard starting position
StartingBoard ==
    [sq \in SQUARES |->
        CASE square_rank(sq) = 0 -> Piece(BackRank[square_file(sq) + 1], WHITE)
          [] square_rank(sq) = 1 -> Piece(PAWN, WHITE)
          [] square_rank(sq) = 6 -> Piece(PAWN, BLACK)
          [] square_rank(sq) = 7 -> Piece(BackRank[square_file(sq) + 1], BLACK)
          [] OTHER -> None]

\* Board.piece_at(square)
piece_at(b, sq) == b[sq]

\* Board.set_piece_at(square, piece): a piece of None clears the square
set_piece_at(b, sq, p) == [b EXCEPT ![sq] = p]

\* Board.remove_piece_at(square)
remove_piece_at(b, sq) == [b EXCEPT ![sq] = None]

----------------------------------------------------------------------------
(* app/models.py *)

\* Field(pattern="^[a-h][1-8]$")
matches_pattern(s) ==
    \E f \in {"a", "b", "c", "d", "e", "f", "g", "h"} :
        \E r \in {"1", "2", "3", "4", "5", "6", "7", "8"} : s = f \o r

\* MoveRequest: both fields pass validation
MoveRequest(from_square, to_square) ==
    matches_pattern(from_square) /\ matches_pattern(to_square)

\* RemovePieceRequest: the field passes validation
RemovePieceRequest(square) == matches_pattern(square)

\* PieceInfo(piece_type=..., color=...)
PieceInfo(pt, c) == [piece_type |-> pt, color |-> c]

\* an Optional[PieceInfo] that is absent
null == [piece_type |-> "", color |-> ""]

----------------------------------------------------------------------------
(* app/service.py *)

PIECE_TYPE_NAMES == <<"pawn", "knight", "bishop", "rook", "queen", "king">>

COLOR_NAMES == [c \in BOOLEAN |-> IF c = WHITE THEN "white" ELSE "black"]

\* Piece.symbol(): upper case for white
PieceSymbol(p) ==
    IF p.color = WHITE
    THEN <<"P", "N", "B", "R", "Q", "K">>[p.piece_type]
    ELSE <<"p", "n", "b", "r", "q", "k">>[p.piece_type]

\* str(empty) for a run of empty squares within one rank. A string built
\* by the library is the sequence of its characters.
EmptyRun(n) ==
    IF n = 0 THEN <<>> ELSE <<(<<"1", "2", "3", "4", "5", "6", "7", "8">>)[n]>>

\* Board.board_fen() on one rank, from file f on, after `empty` empty squares
RECURSIVE RankFen(_, _, _, _)
RankFen(b, r, f, empty) ==
    IF f > 7 THEN EmptyRun(empty)
    ELSE LET p == piece_at(b, 8 * r + f) IN
         IF p = None THEN RankFen(b, r, f + 1, empty + 1)
         ELSE EmptyRun(empty) \o <<PieceSymbol(p)>> \o RankFen(b, r, f + 1, 0)

\* Board.board_fen(): rank 8 first, "/" between ranks
RECURSIVE BoardFenFrom(_, _)
BoardFenFrom(b, r) ==
    IF r = 0 THEN RankFen(b, 0, 0, 0)
    ELSE RankFen(b, r, 0, 0) \o <<"/">> \o BoardFenFrom(b, r - 1)

board_fen(b) == BoardFenFrom(b, 7)

\* Board.castling_xfen() for one colour: the rights the constructor granted
\* (the corner rooks), cleaned against the pieces now on the board
CastlingOf(b, c) ==
    LET r == IF c = WHITE THEN 0 ELSE 7
        king_home == piece_at(b, 8 * r + 4) = Piece(KING, c)
        k == king_home /\ piece_at(b, 8 * r + 7) = Piece(ROOK, c)
        q == king_home /\ piece_at(b, 8 * r) = Piece(ROOK, c)
    IN  (IF k THEN <<IF c = WHITE THEN "K" ELSE "k">> ELSE <<>>)
            \o (IF q THEN <<IF c = WHITE THEN "Q" ELSE "q">> ELSE <<>>)

castling_xfen(b) ==
    LET s == CastlingOf(b, WHITE) \o CastlingOf(b, BLACK)
    IN  IF s = <<>> THEN <<"-">> ELSE s

\* Board.fen(): placement, side to move, castling, en passant square (never
\* set), halfmove clock and fullmove number (never advanced)
fen(b, t) ==
    board_fen(b) \o <<" ", IF t = WHITE THEN "w" ELSE "b", " ">>
        \o castling_xfen(b) \o <<" ", "-", " ", "0", " ", "1">>

\* a service that starts from an empty board
ChessBoardService_empty == [board |-> [sq \in SQUARES |-> None], turn |-> WHITE]

\* ChessBoardService.__init__
ChessBoardService == [board |-> StartingBoard, turn |-> WHITE]

\* PieceInfo(piece_type=PIECE_TYPE_NAMES[...], color=COLOR_NAMES[...]) of a
\* piece, null when there is none
InfoOf(piece) ==
    IF piece # None
    THEN PieceInfo(PIECE_TYPE_NAMES[piece.piece_type], COLOR_NAMES[piece.color])
    ELSE null

\* the dict get_board_state returns
BoardState(self) ==
    [board |-> [name \in SquareNameSet |->
                    InfoOf(piece_at(self.board, SquareIndex[name]))],
     fen |-> fen(self.board, self.turn),
     turn |-> COLOR_NAMES[self.turn]]

\* where a call returns no state
NoState == [board |-> [name \in SquareNameSet |-> null], fen |-> <<>>, turn |-> ""]

\* The outcome of a method call: the service after the call, the message of
\* the ValueError raised ("" when none) and the returned values.
Returned(self, state, moved_piece, captured_piece, removed_piece) ==
    [self |-> self, error |-> "", state |-> state, moved_piece |-> moved_piece,
     captured_piece |-> captured_piece, removed_piece |-> removed_piece]

\* a raise that comes after the turn was toggled
Raised_toggled(self, message) ==
    [self |-> [self EXCEPT !.turn = ~self.turn], error |-> message, state |-> NoState,
     moved_piece |-> null, captured_piece |-> null, removed_piece |-> null]

\* raise ValueError(message): the service is as it was when the method began
Raised(self, message) ==
    [self |-> self, error |-> message, state |-> NoState,
     moved_piece |-> null, captured_piece |-> null, removed_piece |-> null]

\* a snapshot that also passes the turn
get_board_state_toggling(self) ==
    Returned([self EXCEPT !.turn = ~self.turn], BoardState(self), null, null, null)

\* ChessBoardService.get_board_state: reads only
get_board_state(self) == Returned(self, BoardState(self), null, null, null)

\* the boundary test with 63 taken for the first square off the board
OutsideBoard_from63(from_sq, to_sq) == from_sq >= 63 \/ to_sq >= 63

\* the test "from_sq > 63 or to_sq > 63" of move_piece
OutsideBoard(from_sq, to_sq) == from_sq > 63 \/ to_sq > 63

\* the source square test "if not piece" of move_piece and remove_piece
NoPieceAt(b, sq) == piece_at(b, sq) = None

\* a capture that is never reported
Captured_never(self, to_sq) == null

\* captured_piece of move_piece: what stands on the target before the move
Captured(self, to_sq) == InfoOf(piece_at(self.board, to_sq))

\* a move that leaves the source square as it was
MakeMove_keeping_source(self, from_sq, to_sq, piece) ==
    [board |-> set_piece_at(self.board, to_sq, piece), turn |-> ~self.turn]

\* a move that leaves the turn as it was
MakeMove_keeping_turn(self, from_sq, to_sq, piece) ==
    [board |-> remove_piece_at(set_piece_at(self.board, to_sq, piece), from_sq),
     turn |-> self.turn]

\* the mutation of move_piece: place at the target, clear the source, toggle
MakeMove(self, from_sq, to_sq, piece) ==
    [board |-> remove_piece_at(set_piece_at(self.board, to_sq, piece), from_sq),
     turn |-> ~self.turn]

\* ChessBoardService.move_piece. pseudo_legal is the value of
\* "move in self._board.pseudo_legal_moves", a query of the rules library
\* that changes nothing.
move_piece(self, from_square, to_square, pseudo_legal) ==
    LET from_sq == parse_square(from_square)
        to_sq == parse_square(to_square)
        piece == piece_at(self.board, from_sq)
    IN  IF NoPieceAt(self.board, from_sq)
        THEN Raised(self, "No piece found at " \o from_square)
        ELSE IF ~pseudo_legal /\ OutsideBoard(from_sq, to_sq)
        THEN Raised(self, "Move is outside the board boundaries")
        ELSE LET after == MakeMove(self, from_sq, to_sq, piece) IN
             Returned(after, get_board_state(after).state, InfoOf(piece),
                      Captured(self, to_sq), null)

\* a removal that also passes the turn
Remove_toggling(self, sq) ==
    [board |-> remove_piece_at(self.board, sq), turn |-> ~self.turn]

\* the mutation of remove_piece
Remove(self, sq) == [self EXCEPT !.board = remove_piece_at(self.board, sq)]

\* ChessBoardService.remove_piece
remove_piece(self, square) ==
    LET sq == parse_square(square)
        piece == piece_at(self.board, sq)
    IN  IF NoPieceAt(self.board, sq)
        THEN Raised(self, "No piece found at " \o square)
        ELSE LET after == Remove(self, sq) IN
             Returned(after, get_board_state(after).state, null, null, InfoOf(piece))

\* a service built anew by every call
get_chess_service_uncached == ChessBoardService

\* get_chess_service under lru_cache(maxsize=1): the cached instance, or a
\* new one on the first call
get_chess_service == IF cache = <<>> THEN ChessBoardService ELSE cache[1]

----------------------------------------------------------------------------
(* app/main.py: the request handlers, one request at a time *)

\* the square names the requests of the model carry: a white pawn, an empty
\* square, a black queen and the last square of the board (a black rook)
ReqSquares == {"e2", "e4", "d8", "h8"}

NoRequest == [op |-> "", from_square |-> "", to_square |-> "", square |-> ""]

GetRequest == [NoRequest EXCEPT !.op = "get_board"]

MoveReq(from_square, to_square) ==
    [NoRequest EXCEPT !.op = "move_piece", !.from_square = from_square,
                      !.to_square = to_square]

RemoveReq(square) == [NoRequest EXCEPT !.op = "remove_piece", !.square = square]

NoResponse ==
    [status |-> 0, detail |-> "", board |-> NoState.board, fen |-> <<>>, turn |-> "",
     from_square |-> "", to_square |-> "", moved_piece |-> null,
     captured_piece |-> null, removed_square |-> "", removed_piece |-> null]

\* HTTPException(status_code=400, detail=str(e))
HTTPException(detail) == [NoResponse EXCEPT !.status = 400, !.detail = detail]

\* BoardStateResponse built from the returned state
BoardStateResponse(state) ==
    [NoResponse EXCEPT !.status = 200, !.board = state.board, !.fen = state.fen,
                       !.turn = state.turn]

\* the response of the move_piece handler to the result r of the service call
MoveResponse(request, r) ==
    IF r.error # "" THEN HTTPException(r.error)
    ELSE [BoardStateResponse(r.state) EXCEPT
              !.from_square = request.from_square,
              !.to_square = request.to_square,
              !.moved_piece = r.moved_piece,
              !.captured_piece = r.captured_piece]

\* the response of the remove_piece handler to the result r of the service call
RemoveResponse(request, r) ==
    IF r.error # "" THEN HTTPException(r.error)
    ELSE [BoardStateResponse(r.state) EXCEPT
              !.removed_square = request.square,
              !.removed_piece = r.removed_piece]

\* the end-to-end scenario of the tests: move e2 e4, the same again, remove e4
Scenario == <<MoveReq("e2", "e4"), MoveReq("e2", "e4"), RemoveReq("e4")>>

\* scenario after one more request
Follow(request) ==
    IF scenario >= 0 /\ scenario < Len(Scenario) /\ request = Scenario[scenario + 1]
    THEN scenario + 1
    ELSE -1

\* GET /v1/board
get_board ==
    /\ nops < MaxOps
    /\ \E r \in {get_board_state(get_chess_service)} :
           /\ cache' = <<r.self>>
           /\ req' = GetRequest
           /\ resp' = BoardStateResponse(r.state)
           /\ last_get' = BoardStateResponse(r.state)
    /\ same_gets' = same_gets + 1
    /\ touched' = touched
    /\ nops' = nops + 1
    /\ scenario' = Follow(GetRequest)
    /\ UNCHANGED <<tasks, active>>

\* POST /v1/move
post_move ==
    /\ nops < MaxOps
    /\ \E from_square \in ReqSquares, to_square \in ReqSquares :
         /\ MoveRequest(from_square, to_square)
         /\ \E r \in {move_piece(get_chess_service, from_square, to_square, pseudo_legal) :
                            pseudo_legal \in BOOLEAN} :
                /\ cache' = <<r.self>>
                /\ req' = MoveReq(from_square, to_square)
                /\ resp' = MoveResponse(MoveReq(from_square, to_square), r)
                /\ last_get' = IF r.error = "" THEN NoResponse ELSE last_get
                /\ same_gets' = IF r.error = "" THEN 0 ELSE same_gets
                /\ scenario' = Follow(MoveReq(from_square, to_square))
    /\ nops' = nops + 1
    /\ touched' = TRUE
    /\ UNCHANGED <<tasks, active>>

\* POST /v1/remove
post_remove ==
    /\ nops < MaxOps
    /\ \E square \in ReqSquares :
         /\ RemovePieceRequest(square)
         /\ \E r \in {remove_piece(get_chess_service, square)} :
                /\ cache' = <<r.self>>
                /\ req' = RemoveReq(square)
                /\ resp' = RemoveResponse(RemoveReq(square), r)
                /\ last_get' = IF r.error = "" THEN NoResponse ELSE last_get
                /\ same_gets' = IF r.error = "" THEN 0 ELSE same_gets
                /\ scenario' = Follow(RemoveReq(square))
    /\ nops' = nops + 1
    /\ touched' = TRUE
    /\ UNCHANGED <<tasks, active>>

Init ==
    /\ cache = <<>>
    /\ req = NoRequest
    /\ resp = NoResponse
    /\ nops = 0
    /\ scenario = 0
    /\ last_get = NoResponse
    /\ same_gets = 0
    /\ touched = FALSE
    /\ tasks = <<>>
    /\ active = {}

Next == get_board \/ post_move \/ post_remove

Spec == Init /\ [][Next]_vars

----------------------------------------------------------------------------
(* Properties of the service, one request at a time (Spec) *)

\* the piece on a named square of the shared board, None when it is empty
PieceOn(square) == piece_at(get_chess_service.board, parse_square(square))

\* the piece on a named square of the shared board after the step
PieceOnAfter(square) == piece_at(get_chess_service'.board, parse_square(square))

\* the turn indicator of the shared board
Turn == get_chess_service.turn

\* the step handles a move with the source square occupied
MoveOfPiece == req'.op = "move_piece" /\ PieceOn(req'.from_square) # None

\* C1, as stated: for every pair of valid square names (from, to), distinct
\* or not, with from occupied, move succeeds whatever the colour of the piece
\* and the turn; afterwards from is empty, to holds the piece that was at
\* from, and the turn indicator is the opposite of what it was.
C1_AnyPair ==
    [][MoveOfPiece =>
          /\ resp'.status = 200
          /\ PieceOnAfter(req'.from_square) = None
          /\ PieceOnAfter(req'.to_square) = PieceOn(req'.from_square)
          /\ Turn' = ~Turn]_vars

\* C1, amended: for every pair of valid square names (from, to) with from
\* occupied, move succeeds whatever the colour of the piece and the turn;
\* afterwards from is empty and the turn indicator is the opposite of what it
\* was; when to differs from from, to holds the piece that was at from (when
\* to is from, the square is left empty).
C1_MoveEffect ==
    [][MoveOfPiece =>
          /\ resp'.status = 200
          /\ PieceOnAfter(req'.from_square) = None
          /\ req'.to_square # req'.from_square
                => PieceOnAfter(req'.to_square) = PieceOn(req'.from_square)
          /\ Turn' = ~Turn]_vars

\* C1 witness: a black piece was moved to another square while it was
\* white's turn, and it stands on the target
C1_Witness ==
    /\ req.op = "move_piece" /\ req.from_square # req.to_square
    /\ resp.status = 200
    /\ resp.moved_piece.color = "black" /\ resp.turn = "black"
    /\ PieceOn(req.to_square).color = BLACK
    /\ PieceOn(req.from_square) = None

\* C2: a failing operation never mutates: a move from an empty square fails
\* with "No piece found at {from}", a remove of an empty square fails with
\* "No piece found at {square}", the 64 squares and the turn are as before
\* the call, and the same failing call again fails with the same message.
C2_FailureKeepsBoard ==
    [][/\ (req'.op = "move_piece" /\ PieceOn(req'.from_square) = None)
            => /\ resp'.status = 400
               /\ resp'.detail = "No piece found at " \o req'.from_square
               /\ get_chess_service' = get_chess_service
       /\ (req'.op = "remove_piece" /\ PieceOn(req'.square) = None)
            => /\ resp'.status = 400
               /\ resp'.detail = "No piece found at " \o req'.square
               /\ get_chess_service' = get_chess_service
       /\ (resp.status = 400 /\ req' = req) => resp' = resp]_vars

\* C2 witness: after the pawn left e2, a move from e2 has failed and the
\* board still shows the pawn on e4 with black to move
C2_Witness ==
    /\ req.op = "move_piece" /\ req.from_square = "e2"
    /\ resp.status = 400 /\ resp.detail = "No piece found at e2"
    /\ PieceOn("e4") = Piece(PAWN, WHITE)
    /\ Turn = BLACK

\* C3, as stated: for every move(a, b) with a occupied, captured_piece is
\* the piece that occupied b before the call (absent when b was empty),
\* after the call b holds the piece that moved from a, and moved_piece is
\* the piece that was at a.
C3_AnyPair ==
    [][MoveOfPiece =>
          /\ resp'.captured_piece = InfoOf(PieceOn(req'.to_square))
          /\ (resp'.captured_piece = null) = (PieceOn(req'.to_square) = None)
          /\ PieceOnAfter(req'.to_square) = PieceOn(req'.from_square)
          /\ resp'.board[req'.to_square] = InfoOf(PieceOn(req'.from_square))
          /\ resp'.moved_piece = InfoOf(PieceOn(req'.from_square))]_vars

\* C3, amended: for every move(a, b) with a occupied, captured_piece is the
\* piece that occupied b before the call (absent when b was empty) and
\* moved_piece is the piece that was at a; when b differs from a, b holds
\* after the call the piece that moved from a; when b is a, captured_piece
\* is the moving piece itself and the square is empty after the call.
C3_Capture ==
    [][MoveOfPiece =>
          /\ resp'.captured_piece = InfoOf(PieceOn(req'.to_square))
          /\ (resp'.captured_piece = null) = (PieceOn(req'.to_square) = None)
          /\ resp'.moved_piece = InfoOf(PieceOn(req'.from_square))
          /\ req'.to_square # req'.from_square
                => /\ PieceOnAfter(req'.to_square) = PieceOn(req'.from_square)
                   /\ resp'.board[req'.to_square] = InfoOf(PieceOn(req'.from_square))
          /\ req'.to_square = req'.from_square
                => /\ resp'.captured_piece = resp'.moved_piece
                   /\ PieceOnAfter(req'.to_square) = None
                   /\ resp'.board[req'.to_square] = null]_vars

\* C3 witness: the white pawn of e2 has captured the black queen on d8
C3_Witness ==
    /\ req = MoveReq("e2", "d8")
    /\ resp.status = 200
    /\ resp.moved_piece = PieceInfo("pawn", "white")
    /\ resp.captured_piece = PieceInfo("queen", "black")
    /\ resp.board["d8"] = PieceInfo("pawn", "white")

\* C4: remove of an occupied square succeeds, returns as removed_piece the
\* piece that was on it, and afterwards the square is empty, the turn is as
\* before and each of the other 63 squares holds what it held.
C4_RemoveFrame ==
    [][(req'.op = "remove_piece" /\ PieceOn(req'.square) # None) =>
          /\ resp'.status = 200
          /\ resp'.removed_piece = InfoOf(PieceOn(req'.square))
          /\ resp'.removed_square = req'.square
          /\ PieceOnAfter(req'.square) = None
          /\ resp'.board[req'.square] = null
          /\ Turn' = Turn
          /\ resp'.turn = COLOR_NAMES[Turn]
          /\ \A sq \in SQUARES \ {parse_square(req'.square)} :
                get_chess_service'.board[sq] = get_chess_service.board[sq]]_vars

\* C4 witness: a piece was removed while it was black's turn
C4_Witness ==
    /\ req.op = "remove_piece"
    /\ resp.status = 200
    /\ resp.removed_piece # null
    /\ resp.turn = "black" /\ Turn = BLACK

\* the board after the first request of the scenario: the pawn of e2 on e4
AfterE2E4 == [StartingBoard EXCEPT ![12] = None, ![28] = Piece(PAWN, WHITE)]

\* C5: from the initial board, move(e2,e4) succeeds with moved_piece the
\* white pawn, no captured_piece, e2 empty, e4 the white pawn and turn black;
\* move(e2,e4) again fails with "No piece found at e2" and changes nothing;
\* remove(e4) then succeeds with removed_piece the white pawn, e4 empty and
\* the turn still black.
C5_Scenario ==
    /\ scenario = 1 =>
          /\ resp.status = 200
          /\ resp.moved_piece = PieceInfo("pawn", "white")
          /\ resp.captured_piece = null
          /\ resp.board["e2"] = null
          /\ resp.board["e4"] = PieceInfo("pawn", "white")
          /\ resp.turn = "black"
          /\ get_chess_service = [board |-> AfterE2E4, turn |-> BLACK]
    /\ scenario = 2 =>
          /\ resp.status = 400
          /\ resp.detail = "No piece found at e2"
          /\ get_chess_service = [board |-> AfterE2E4, turn |-> BLACK]
    /\ scenario = 3 =>
          /\ resp.status = 200
          /\ resp.removed_piece = PieceInfo("pawn", "white")
          /\ resp.board["e4"] = null
          /\ resp.board["e2"] = null
          /\ resp.turn = "black"
          /\ get_chess_service = [board |-> [AfterE2E4 EXCEPT ![28] = None],
                                  turn |-> BLACK]

\* C5 witness: the three requests of the scenario were handled in order
C5_Witness == scenario = 3 /\ nops = 3 /\ req = RemoveReq("e4")

\* C6: get_state is a pure read that always succeeds: it leaves the 64
\* squares and the turn as they were, and two calls with no successful move
\* or remove between them return the same snapshot (mapping, positional
\* notation and turn).
C6_PureRead ==
    [][req'.op = "get_board" =>
          /\ resp'.status = 200
          /\ get_chess_service' = get_chess_service
          /\ same_gets > 0 =>
                /\ resp'.board = last_get.board
                /\ resp'.fen = last_get.fen
                /\ resp'.turn = last_get.turn]_vars

\* C6 witness: the board was read twice, a failed move or remove was
\* handled as well, and the second read returned what the first returned
C6_Witness ==
    /\ req = GetRequest
    /\ same_gets = 2
    /\ touched
    /\ nops = 3
    /\ resp = last_get

\* the piece kinds of the back rank, file a to file h
StandardBackRank ==
    [a |-> "rook", b |-> "knight", c |-> "bishop", d |-> "queen", e |-> "king",
     f |-> "bishop", g |-> "knight", h |-> "rook"]

\* a snapshot of the standard starting position, white to move
IsStartSnapshot(r) ==
    /\ DOMAIN r.board = {f \o k : f \in DOMAIN StandardBackRank,
                                  k \in {"1", "2", "3", "4", "5", "6", "7", "8"}}
    /\ Cardinality(DOMAIN r.board) = 64
    /\ r.board["e1"] = PieceInfo("king", "white")
    /\ r.board["d8"] = PieceInfo("queen", "black")
    /\ \A f \in DOMAIN StandardBackRank :
          /\ r.board[f \o "1"] = PieceInfo(StandardBackRank[f], "white")
          /\ r.board[f \o "2"] = PieceInfo("pawn", "white")
          /\ \A k \in {"3", "4", "5", "6"} : r.board[f \o k] = null
          /\ r.board[f \o "7"] = PieceInfo("pawn", "black")
          /\ r.board[f \o "8"] = PieceInfo(StandardBackRank[f], "black")
    /\ r.turn = "white"

\* C7: the snapshot of the board before any move or remove has exactly 64
\* entries, one per square name a1..h8, shows the standard starting position
\* (e1 a white king, d8 a black queen) and its turn is white.
C7_InitialSnapshot ==
    (req.op = "get_board" /\ ~touched) => IsStartSnapshot(resp)

\* C7 witness: the board was read before any move or remove
C7_Witness == req.op = "get_board" /\ ~touched /\ nops = 1 /\ resp.status = 200

\* C9: on square names matching ^[a-h][1-8]$ move never fails with "Move is
\* outside the board boundaries"; its only failure is "No piece found at
\* {from_square}", raised exactly when the source square is empty.
C9_BoundaryUnreachable ==
    [][(/\ req'.op = "move_piece"
        /\ matches_pattern(req'.from_square)
        /\ matches_pattern(req'.to_square)) =>
          /\ resp'.detail # "Move is outside the board boundaries"
          /\ resp'.status \in {200, 400}
          /\ (resp'.status = 400) = (PieceOn(req'.from_square) = None)
          /\ resp'.status = 400
                => resp'.detail = "No piece found at " \o req'.from_square]_vars

\* C9 witness: a move to the last square of the board, h8, has succeeded
C9_Witness ==
    /\ req.op = "move_piece" /\ req.to_square = "h8" /\ req.from_square # "h8"
    /\ parse_square(req.to_square) = 63
    /\ resp.status = 200

\* the number of squares of board b that hold piece p
Count(b, p) == Cardinality({sq \in SQUARES : b[sq] = p})

\* the number of occupied squares of board b
Total(b) == Cardinality({sq \in SQUARES : b[sq] # None})

\* the pieces of the game
Pieces == {Piece(pt, c) : pt \in PAWN..KING, c \in BOOLEAN}

\* how many of each piece the starting position holds
StartCount == [p \in Pieces |-> Count(StartingBoard, p)]

\* by how many pieces the step lowers the total
Taken ==
    IF resp'.status # 200 \/ req'.op = "get_board" THEN 0
    ELSE IF req'.op = "remove_piece" THEN 1
    ELSE IF PieceOn(req'.to_square) # None THEN 1 ELSE 0

\* C10: after any sequence of calls, each (kind, colour) stands on at most
\* as many squares as in the starting position, so the total is at most 32
\* and never increases; a successful remove lowers the total by one, a
\* successful move by one when the destination was occupied and otherwise
\* not at all, and a failed call or get_state leaves it unchanged.
C10_PieceCount ==
    [][/\ \A p \in Pieces :
             Count(get_chess_service'.board, p) <= StartCount[p]
       /\ Total(get_chess_service'.board) <= 32
       /\ Total(get_chess_service'.board) = Total(get_chess_service.board) - Taken]_vars

\* C10 witness: two pieces are gone, one taken by a move and one removed
C10_Witness ==
    /\ Total(get_chess_service.board) = 30
    /\ req.op = "remove_piece" /\ resp.status = 200
    /\ Count(get_chess_service.board, Piece(QUEEN, BLACK)) = 0

----------------------------------------------------------------------------
(* app/main.py on the event loop: requests in flight at once (SpecLoop).    *)
(* A handler is a coroutine; each statement of it that reads or writes the  *)
(* shared board is a step.                                                  *)

\* the square names the requests in flight carry
LoopSquares == {"e2", "e4"}

LoopRequests ==
    {GetRequest} \cup {MoveReq(f, t) : f \in LoopSquares, t \in LoopSquares}
                 \cup {RemoveReq(sq) : sq \in LoopSquares}

\* handlers run by a pool of threads: one may begin while another runs
LoopIdle_threads == TRUE

\* The handlers are "async def" and hold no await: the loop calls one only
\* when no other has begun and not yet returned.
LoopIdle == active = {}

\* the first statement of each handler that touches the board
FirstStatement(request) ==
    CASE request.op = "get_board" -> "get_board_state"
      [] request.op = "move_piece" -> "piece_at_from"
      [] request.op = "remove_piece" -> "piece_at"

\* the statement of task i that is next
At(i, op, pc) ==
    /\ i \in active
    /\ tasks[i].request.op = op
    /\ tasks[i].pc = pc

\* task i goes on to statement pc
Goto(i, pc) == tasks' = [tasks EXCEPT ![i].pc = pc]

\* the handler of task i returns or raises: the response goes out
Respond(i, response) ==
    /\ tasks' = [tasks EXCEPT ![i].pc = "done"]
    /\ active' = active \ {i}
    /\ req' = tasks[i].request
    /\ resp' = response

Unused == <<nops, scenario, last_get, same_gets, touched>>

\* a request arrives and waits for the loop
Receive ==
    /\ Len(tasks) < MaxTasks
    /\ \E request \in LoopRequests :
          tasks' = Append(tasks, [request |-> request, pc |-> "pending",
                                  piece |-> None, target_piece |-> None])
    /\ UNCHANGED <<cache, req, resp, active, Unused>>

\* the loop calls the handler of a waiting request: get_chess_service()
Begin(i) ==
    /\ i \in DOMAIN tasks
    /\ tasks[i].pc = "pending"
    /\ LoopIdle
    /\ active' = active \cup {i}
    /\ cache' = <<get_chess_service>>
    /\ Goto(i, FirstStatement(tasks[i].request))
    /\ UNCHANGED <<req, resp, Unused>>

\* get_board: return chess_service.get_board_state()
GetBoardState(i) ==
    /\ At(i, "get_board", "get_board_state")
    /\ Respond(i, BoardStateResponse(get_board_state(cache[1]).state))
    /\ UNCHANGED <<cache, Unused>>

\* move_piece: piece = self._board.piece_at(from_sq), and the raise
MovePieceAtFrom(i) ==
    /\ At(i, "move_piece", "piece_at_from")
    /\ LET from_square == tasks[i].request.from_square
           from_sq == parse_square(from_square)
       IN  IF NoPieceAt(cache[1].board, from_sq)
           THEN Respond(i, HTTPException("No piece found at " \o from_square))
           ELSE /\ tasks' = [tasks EXCEPT ![i].piece = piece_at(cache[1].board, from_sq),
                                          ![i].pc = "piece_at_to"]
                /\ UNCHANGED <<req, resp, active>>
    /\ UNCHANGED <<cache, Unused>>

\* move_piece: target_piece = self._board.piece_at(to_sq)
MovePieceAtTo(i) ==
    /\ At(i, "move_piece", "piece_at_to")
    /\ tasks' = [tasks EXCEPT
                    ![i].target_piece =
                        piece_at(cache[1].board, parse_square(tasks[i].request.to_square)),
                    ![i].pc = "pseudo_legal"]
    /\ UNCHANGED <<cache, req, resp, active, Unused>>

\* move_piece: the pseudo_legal_moves query and the boundary test
MovePseudoLegal(i) ==
    /\ At(i, "move_piece", "pseudo_legal")
    /\ \E pseudo_legal \in BOOLEAN :
          IF ~pseudo_legal
             /\ OutsideBoard(parse_square(tasks[i].request.from_square),
                             parse_square(tasks[i].request.to_square))
          THEN Respond(i, HTTPException("Move is outside the board boundaries"))
          ELSE Goto(i, "set_piece_at") /\ UNCHANGED <<req, resp, active>>
    /\ UNCHANGED <<cache, Unused>>

\* move_piece: self._board.set_piece_at(to_sq, piece)
MoveSetPieceAt(i) ==
    /\ At(i, "move_piece", "set_piece_at")
    /\ cache' = <<[cache[1] EXCEPT !.board =
                      set_piece_at(cache[1].board,
                                   parse_square(tasks[i].request.to_square),
                                   tasks[i].piece)]>>
    /\ Goto(i, "remove_piece_at")
    /\ UNCHANGED <<req, resp, active, Unused>>

\* move_piece: self._board.remove_piece_at(from_sq)
MoveRemovePieceAt(i) ==
    /\ At(i, "move_piece", "remove_piece_at")
    /\ cache' = <<[cache[1] EXCEPT !.board =
                      remove_piece_at(cache[1].board,
                                      parse_square(tasks[i].request.from_square))]>>
    /\ Goto(i, "toggle_turn")
    /\ UNCHANGED <<req, resp, active, Unused>>

\* move_piece: self._board.turn = not self._board.turn
MoveToggleTurn(i) ==
    /\ At(i, "move_piece", "toggle_turn")
    /\ cache' = <<[cache[1] EXCEPT !.turn = ~cache[1].turn]>>
    /\ Goto(i, "get_board_state")
    /\ UNCHANGED <<req, resp, active, Unused>>

\* move_piece: return self.get_board_state(), moved_piece, captured_piece
MoveGetBoardState(i) ==
    /\ At(i, "move_piece", "get_board_state")
    /\ Respond(i, MoveResponse(tasks[i].request,
                               Returned(cache[1], get_board_state(cache[1]).state,
                                        InfoOf(tasks[i].piece),
                                        InfoOf(tasks[i].target_piece), null)))
    /\ UNCHANGED <<cache, Unused>>

\* remove_piece: piece = self._board.piece_at(sq), and the raise
RemovePieceAt(i) ==
    /\ At(i, "remove_piece", "piece_at")
    /\ LET square == tasks[i].request.square
           sq == parse_square(square)
       IN  IF NoPieceAt(cache[1].board, sq)
           THEN Respond(i, HTTPException("No piece found at " \o square))
           ELSE /\ tasks' = [tasks EXCEPT ![i].piece = piece_at(cache[1].board, sq),
                                          ![i].pc = "remove_piece_at"]
                /\ UNCHANGED <<req, resp, active>>
    /\ UNCHANGED <<cache, Unused>>

\* remove_piece: self._board.remove_piece_at(sq)
RemoveRemovePieceAt(i) ==
    /\ At(i, "remove_piece", "remove_piece_at")
    /\ cache' = <<Remove(cache[1], parse_square(tasks[i].request.square))>>
    /\ Goto(i, "get_board_state")
    /\ UNCHANGED <<req, resp, active, Unused>>

\* remove_piece: return self.get_board_state(), removed_piece
RemoveGetBoardState(i) ==
    /\ At(i, "remove_piece", "get_board_state")
    /\ Respond(i, RemoveResponse(tasks[i].request,
                                 Returned(cache[1], get_board_state(cache[1]).state,
                                          null, null, InfoOf(tasks[i].piece))))
    /\ UNCHANGED <<cache, Unused>>

NextLoop ==
    \/ Receive
    \/ \E i \in 1..MaxTasks :
          \/ Begin(i)
          \/ GetBoardState(i)
          \/ MovePieceAtFrom(i)
          \/ MovePieceAtTo(i)
          \/ MovePseudoLegal(i)
          \/ MoveSetPieceAt(i)
          \/ MoveRemovePieceAt(i)
          \/ MoveToggleTurn(i)
          \/ MoveGetBoardState(i)
          \/ RemovePieceAt(i)
          \/ RemoveRemovePieceAt(i)
          \/ RemoveGetBoardState(i)

SpecLoop == Init /\ [][NextLoop]_vars

----------------------------------------------------------------------------
(* Properties of the handlers on the event loop (SpecLoop) *)

\* a whole move or remove, applied to service state s at once; a request
\* that fails and a read leave s as it is
Whole(s, request) ==
    CASE request.op = "move_piece" ->
            LET f == parse_square(request.from_square)
                t == parse_square(request.to_square)
            IN  IF s.board[f] = None THEN s
                ELSE [board |-> [[s.board EXCEPT ![t] = s.board[f]] EXCEPT ![f] = None],
                      turn |-> ~s.turn]
      [] request.op = "remove_piece" ->
            [s EXCEPT !.board[parse_square(request.square)] = None]
      [] OTHER -> s

\* the service states between whole operations: the requests ids, each at
\* most once and in any order, applied whole from state s
RECURSIVE SerialStates(_, _)
SerialStates(s, ids) ==
    {s} \cup UNION {SerialStates(Whole(s, tasks[i].request), ids \ {i}) : i \in ids}

\* response r shows service state s
Shows(r, s) ==
    /\ r.turn = COLOR_NAMES[s.turn]
    /\ \A name \in LoopSquares :
          (r.board[name] = null) = (s.board[parse_square(name)] = None)
    /\ \A sq \in SQUARES :
          /\ (r.board[SQUARE_NAMES[sq]] = null) = (s.board[sq] = None)
          /\ s.board[sq] # None =>
                /\ r.board[SQUARE_NAMES[sq]].piece_type
                      = PIECE_TYPE_NAMES[s.board[sq].piece_type]
                /\ r.board[SQUARE_NAMES[sq]].color = COLOR_NAMES[s.board[sq].color]
    /\ r.fen = fen(s.board, s.turn)

\* C8: with requests in flight at once, each handler's read-then-write of
\* the board runs to completion with no other handler interleaving, and
\* every snapshot returned is the board between two whole operations: none
\* shows a piece placed but its source not cleared, or the turn not toggled.
C8_NoTornSnapshot ==
    /\ Cardinality(active) <= 1
    /\ resp.status = 200 =>
          \E s \in SerialStates(ChessBoardService, DOMAIN tasks) : Shows(resp, s)

\* C8 witness: a move has placed the pawn on e4 and not yet cleared e2,
\* while a get_board request is in flight and waits
C8_Witness ==
    \E i \in DOMAIN tasks, j \in DOMAIN tasks :
        /\ tasks[i].request = MoveReq("e2", "e4")
        /\ tasks[i].pc = "remove_piece_at"
        /\ cache[1].board[parse_square("e2")] = Piece(PAWN, WHITE)
        /\ cache[1].board[parse_square("e4")] = Piece(PAWN, WHITE)
        /\ tasks[j].request = GetRequest
        /\ tasks[j].pc = "pending"

====
